---- MODULE Spec2Model ----
(***************************************************************************)
(* Model of src/main.cpp: the bit-packed chess position, the move encoding, *)
(* the target-square lookup, make_move / unmake_move, and the generated     *)
(* knight and rook-like move tables.                                        *)
(*                                                                          *)
(* Representation.  A bitboard (std::uint64_t) is modelled as the set of    *)
(* the indices of its set bits, a subset of 0..63: x |= sbitboard(s) is     *)
(* x \cup {s} and x &= ~sbitboard(s) is x \ {s}.  A bitlane (std::uint8_t)  *)
(* and the 16 bit move word are modelled as naturals with the bit           *)
(* operations computed bit by bit.                                          *)
(***************************************************************************)
EXTENDS Integers, Sequences, FiniteSets, TLC

\* ------------------------------------------------------------------ enums

\* enum piece_color: bool { white = true, black = false }
white == 1
black == 0
Colors == {black, white}

\* operator!(piece_color)
Not(original) == 1 - original

\* enum piece_type: uint8_t
rook == 0
knight == 1
bishop == 2
queen == 3
king == 4
pawn == 5
none == 6
PieceTypes == {rook, knight, bishop, queen, king, pawn, none}

\* The squares of a bitboard: bit n is square n.
NumSquares == 64
Squares == 0 .. (NumSquares - 1)

\* ------------------------------------------------------- bit arithmetic

RECURSIVE Pow2(_)
Pow2(n) == IF n = 0 THEN 1 ELSE 2 * Pow2(n - 1)

\* x >> n and x << n on naturals (no truncation: the caller truncates).
Shr(x, n) == x \div Pow2(n)
Shl(x, n) == x * Pow2(n)

\* Bit n of x.
TestBit(x, n) == (x \div Pow2(n)) % 2 = 1

RECURSIVE BitOrW(_, _, _)
BitOrW(x, y, w) ==
    IF w = 0 THEN 0
    ELSE (IF (x % 2 = 1) \/ (y % 2 = 1) THEN 1 ELSE 0)
         + 2 * BitOrW(x \div 2, y \div 2, w - 1)

RECURSIVE BitAndW(_, _, _)
BitAndW(x, y, w) ==
    IF w = 0 THEN 0
    ELSE (IF (x % 2 = 1) /\ (y % 2 = 1) THEN 1 ELSE 0)
         + 2 * BitAndW(x \div 2, y \div 2, w - 1)

\* x | y on 16 bit words.
BitOr(x, y) == BitOrW(x, y, 16)

\* x & m for a mask m = 0b1..1 of n low bits: the n low bits of x.
LowBits(x, n) == x % Pow2(n)

\* ------------------------------------------------- coordinate utilities

\* sbitlane(n): ((bitlane) 1) << n, truncated to 8 bits.
sbitlane(n) == Shl(1, n) % 256

\* coords_to_sindex(rank, file): rank * 8 + file, truncated to uint8_t.
coords_to_sindex(rank, file) == (rank * 8 + file) % 256

\* rotate_sindex with the low group masked by 0b11 instead of 0b111.
rotate_sindex_mask2(original) ==
    LET a == Shr(original, 3)
        b == LowBits(original, 2)
    IN  ((b * 8) + a) % 256

\* rotate_sindex(original)
rotate_sindex(original) ==
    LET a == Shr(original, 3)
        b == LowBits(original, 3)
    IN  ((b * 8) + a) % 256

\* sbitboard(square_index): the bitboard with only that bit set.
sbitboard(square_index) == {square_index}

\* --------------------------------------------------------- move encoding

\* bitmove::bitmove with the destination shifted by 5 instead of 6.
bitmove_shift5(origin, destination, promote_to) ==
    BitOr(BitOr(Shl(promote_to, 12) % 65536, Shl(destination, 5) % 65536),
          origin)

\* bitmove::bitmove: the 16 bit data word.
bitmove(origin, destination, promote_to) ==
    BitOr(BitOr(Shl(promote_to, 12) % 65536, Shl(destination, 6) % 65536),
          origin)

unpack_origin(data) == LowBits(data, 6)
unpack_destination(data) == LowBits(Shr(data, 6), 6)
unpack_promotion(data) == LowBits(Shr(data, 12), 3)
unpack_all(data) ==
    <<unpack_origin(data), unpack_destination(data), unpack_promotion(data)>>

\* ------------------------------------------------------- target resolver

\* The size of target_lookup_table: 8 files * 2 colors + 64 identity targets.
TargetTableSize == 80
TargetKeys == 0 .. (TargetTableSize - 1)

\* The slot generate_target_lookup_table writes for a file and a color:
\* table[file << color].
target_slot(file, color) == Shl(file, color)

\* The square it writes there: coords_to_sindex(4, file) for white and
\* coords_to_sindex(3, file) for black.
target_rank_square(file, color) ==
    IF color = white THEN coords_to_sindex(4, file) ELSE coords_to_sindex(3, file)

\* The two writes of one iteration of the first loop of
\* generate_target_lookup_table, in the order the code makes them.
target_table_write_file(table, file) ==
    LET t1 == [table EXCEPT ![target_slot(file, white)] = target_rank_square(file, white)]
    IN  [t1 EXCEPT ![target_slot(file, black)] = target_rank_square(file, black)]

\* The table after the first n iterations (file = 0 .. n-1) of the first loop,
\* starting from the zero-initialised array.
RECURSIVE target_table_files(_)
target_table_files(n) ==
    IF n = 0 THEN [k \in TargetKeys |-> 0]
    ELSE target_table_write_file(target_table_files(n - 1), n - 1)

\* generate_target_lookup_table(): the first loop over the 8 files, then
\* table[16 + i] = i for i < 64.
generate_target_lookup_table ==
    LET files == target_table_files(8)
    IN  [k \in TargetKeys |-> IF k >= 16 THEN k - 16 ELSE files[k]]

target_lookup_table == generate_target_lookup_table

\* The is_enpassant flag of lookup_target: the three conditions joined by |.
is_enpassant(origin, destination, moved_piece_type, destination_occupant_type) ==
    \/ moved_piece_type = pawn
    \/ LowBits(origin, 3) # LowBits(destination, 3)
    \/ destination_occupant_type = none

\* The key lookup_target computes into target_lookup_table.
target_key(origin, destination, moved_piece_type, destination_occupant_type, aggressor_color) ==
    LET enp == IF is_enpassant(origin, destination, moved_piece_type,
                               destination_occupant_type) THEN 1 ELSE 0
        file == LowBits(destination, 3)
    IN  ((((Shl(file + 1, aggressor_color) - 1) * enp)
          + ((1 - enp) * (16 + destination))) % 256)

lookup_target(origin, destination, moved_piece_type, destination_occupant_type, aggressor_color) ==
    target_lookup_table[target_key(origin, destination, moved_piece_type,
                                   destination_occupant_type, aggressor_color)]

\* -------------------------------------------------------------- position

\* struct reversible_move
ReversibleMove(origin, destination, target, captured_piece_type, is_promotion) ==
    [origin |-> origin, destination |-> destination, target |-> target,
     captured_piece_type |-> captured_piece_type, is_promotion |-> is_promotion]

\* make_move, up to the push: unpack the move, resolve the target and build the
\* reversible_move record that is pushed on move_log.
make_move_record(move, position) ==
    LET origin == unpack_all(move)[1]
        destination == unpack_all(move)[2]
        promote_to == unpack_all(move)[3]
        is_promotion == promote_to # none
        moved_piece_type == position.occupier_type_lookup_table[origin]
        destination_occupant_type == position.occupier_type_lookup_table[destination]
        target == lookup_target(origin, destination, moved_piece_type,
                                destination_occupant_type, position.whos_turn)
    IN  ReversibleMove(origin, destination, target,
                       position.occupier_type_lookup_table[target], is_promotion)

\* make_move, "Clear the now vacated origin square."
make_clear_origin(position, origin, moved_piece_type) ==
    [position EXCEPT
        !.occupier_type_lookup_table[origin] = none,
        !.color_bitboard[position.whos_turn] = @ \ sbitboard(origin),
        !.type_specific_bitboard[moved_piece_type] = @ \ sbitboard(origin),
        !.color_bitboard_rotated[position.whos_turn] = @ \ sbitboard(rotate_sindex(origin))]

\* make_move, "Clear the target square since the piece which resides on it has
\* been captured."  The rotated bitboard is cleared at origin_rotated.
make_clear_target(position, origin, target) ==
    LET target_piece_type == position.occupier_type_lookup_table[target]
        opponent_color == Not(position.whos_turn)
    IN  [position EXCEPT
            !.type_specific_bitboard[target_piece_type] = @ \ sbitboard(target),
            !.occupier_type_lookup_table[target] = none,
            !.color_bitboard[opponent_color] = @ \ sbitboard(target),
            !.color_bitboard_rotated[opponent_color] = @ \ sbitboard(rotate_sindex(origin))]

\* The destination fill with the rotated side bitboard set at the destination's
\* own index, sbitboard(destination), in place of sbitboard(rotate_sindex(destination)).
make_fill_destination_unrotated(position, destination, moved_piece_type, promote_to) ==
    LET is_promotion == promote_to # none
    IN  [position EXCEPT
            !.occupier_type_lookup_table[destination] =
                (IF is_promotion THEN moved_piece_type ELSE promote_to),
            !.color_bitboard[position.whos_turn] = @ \cup sbitboard(destination),
            !.type_specific_bitboard[moved_piece_type] = @ \cup sbitboard(destination),
            !.color_bitboard_rotated[position.whos_turn] = @ \cup sbitboard(destination)]

\* make_move, "Fill the destination square with the moved piece."
make_fill_destination(position, destination, moved_piece_type, promote_to) ==
    LET is_promotion == promote_to # none
    IN  [position EXCEPT
            !.occupier_type_lookup_table[destination] =
                (IF is_promotion THEN moved_piece_type ELSE promote_to),
            !.color_bitboard[position.whos_turn] = @ \cup sbitboard(destination),
            !.type_specific_bitboard[moved_piece_type] = @ \cup sbitboard(destination),
            !.color_bitboard_rotated[position.whos_turn] =
                @ \cup sbitboard(rotate_sindex(destination))]

\* make_move(move, position): the position after the call.
make_move(move, position) ==
    LET origin == unpack_all(move)[1]
        destination == unpack_all(move)[2]
        promote_to == unpack_all(move)[3]
        moved_piece_type == position.occupier_type_lookup_table[origin]
        record == make_move_record(move, position)
        pushed == [position EXCEPT !.move_log = Append(@, record)]
        cleared == make_clear_origin(pushed, origin, moved_piece_type)
        captured == make_clear_target(cleared, origin, record.target)
        filled == make_fill_destination(captured, destination, moved_piece_type, promote_to)
    IN  [filled EXCEPT !.whos_turn = Not(position.whos_turn)]

\* unmake_move, the three blocks that restore the squares of last_move:
\* "Remove the piece from its destination square", "If a piece was captured as
\* a result of this move, un-capture it", "Put the piece back on its origin
\* square".
unmake_move_board(position, last_move) ==
    LET is_capture == last_move.captured_piece_type # none
        last_player_to_move == Not(position.whos_turn)
        post_move_piece_type == position.occupier_type_lookup_table[last_move.destination]
        pre_move_piece_type == IF last_move.is_promotion THEN pawn ELSE post_move_piece_type
        destination_rotated == rotate_sindex(last_move.destination)
        target_rotated == rotate_sindex(last_move.target)
        origin_rotated == rotate_sindex(last_move.origin)
        removed == [position EXCEPT
            !.occupier_type_lookup_table[last_move.destination] = none,
            !.color_bitboard[last_player_to_move] = @ \ sbitboard(last_move.destination),
            !.color_bitboard_rotated[last_player_to_move] = @ \ sbitboard(destination_rotated),
            !.type_specific_bitboard[post_move_piece_type] = @ \ sbitboard(last_move.destination)]
        uncaptured == [removed EXCEPT
            !.occupier_type_lookup_table[last_move.target] = last_move.captured_piece_type,
            !.color_bitboard[position.whos_turn] =
                @ \cup (IF is_capture THEN sbitboard(last_move.target) ELSE {}),
            !.color_bitboard_rotated[position.whos_turn] =
                @ \cup (IF is_capture THEN sbitboard(target_rotated) ELSE {}),
            !.type_specific_bitboard[last_move.captured_piece_type] =
                @ \cup sbitboard(last_move.target)]
    IN  [uncaptured EXCEPT
            !.occupier_type_lookup_table[last_move.origin] = pre_move_piece_type,
            !.color_bitboard[last_player_to_move] = @ \cup sbitboard(last_move.origin),
            !.color_bitboard_rotated[last_player_to_move] = @ \cup sbitboard(origin_rotated),
            !.type_specific_bitboard[pre_move_piece_type] = @ \cup sbitboard(last_move.origin)]

\* unmake_move without its last statement, position.whos_turn = last_player_to_move.
unmake_move_keeps_turn(position) ==
    LET last_move == position.move_log[Len(position.move_log)]
    IN  [unmake_move_board(position, last_move) EXCEPT
            !.move_log = SubSeq(@, 1, Len(@) - 1)]

\* unmake_move(position) on a non-empty move_log: the position after the call.
unmake_move(position) ==
    LET last_move == position.move_log[Len(position.move_log)]
    IN  [unmake_move_board(position, last_move) EXCEPT
            !.move_log = SubSeq(@, 1, Len(@) - 1),
            !.whos_turn = Not(position.whos_turn)]

\* ------------------------------------------------------------ move tables

\* A value converted to std::uint8_t.
U8(x) == x % 256

\* The body of the loops of generate_knight_move_table with the first test
\* written without its file bound: knight_rank < 6 alone.
knight_moves_no_file_test(knight_rank, knight_file) ==
    (IF knight_rank < 6
        THEN sbitboard(coords_to_sindex(U8(knight_rank + 2), U8(knight_file - 1))) ELSE {})
    \cup (IF knight_file < 7 /\ knight_rank < 6
        THEN sbitboard(coords_to_sindex(U8(knight_rank + 2), U8(knight_file + 1))) ELSE {})
    \cup (IF knight_file < 6 /\ knight_rank < 7
        THEN sbitboard(coords_to_sindex(U8(knight_rank + 1), U8(knight_file + 2))) ELSE {})
    \cup (IF knight_file > 1 /\ knight_rank < 7
        THEN sbitboard(coords_to_sindex(U8(knight_rank + 1), U8(knight_file - 2))) ELSE {})
    \cup (IF knight_file > 0 /\ knight_rank > 1
        THEN sbitboard(coords_to_sindex(U8(knight_rank - 2), U8(knight_file - 1))) ELSE {})
    \cup (IF knight_file < 7 /\ knight_rank > 1
        THEN sbitboard(coords_to_sindex(U8(knight_rank - 2), U8(knight_file + 1))) ELSE {})
    \cup (IF knight_file > 1 /\ knight_rank > 0
        THEN sbitboard(coords_to_sindex(U8(knight_rank - 1), U8(knight_file - 2))) ELSE {})
    \cup (IF knight_file < 6 /\ knight_rank > 0
        THEN sbitboard(coords_to_sindex(U8(knight_rank - 1), U8(knight_file + 2))) ELSE {})

\* The body of the two loops of generate_knight_move_table: the moves bitboard
\* of a knight on (knight_rank, knight_file), the eight tests in the code's order.
knight_moves(knight_rank, knight_file) ==
    (IF knight_file > 0 /\ knight_rank < 6
        THEN sbitboard(coords_to_sindex(U8(knight_rank + 2), U8(knight_file - 1))) ELSE {})
    \cup (IF knight_file < 7 /\ knight_rank < 6
        THEN sbitboard(coords_to_sindex(U8(knight_rank + 2), U8(knight_file + 1))) ELSE {})
    \cup (IF knight_file < 6 /\ knight_rank < 7
        THEN sbitboard(coords_to_sindex(U8(knight_rank + 1), U8(knight_file + 2))) ELSE {})
    \cup (IF knight_file > 1 /\ knight_rank < 7
        THEN sbitboard(coords_to_sindex(U8(knight_rank + 1), U8(knight_file - 2))) ELSE {})
    \cup (IF knight_file > 0 /\ knight_rank > 1
        THEN sbitboard(coords_to_sindex(U8(knight_rank - 2), U8(knight_file - 1))) ELSE {})
    \cup (IF knight_file < 7 /\ knight_rank > 1
        THEN sbitboard(coords_to_sindex(U8(knight_rank - 2), U8(knight_file + 1))) ELSE {})
    \cup (IF knight_file > 1 /\ knight_rank > 0
        THEN sbitboard(coords_to_sindex(U8(knight_rank - 1), U8(knight_file - 2))) ELSE {})
    \cup (IF knight_file < 6 /\ knight_rank > 0
        THEN sbitboard(coords_to_sindex(U8(knight_rank - 1), U8(knight_file + 2))) ELSE {})

\* The table after the first n iterations of the nested loops (knight_file
\* outer, knight_rank inner), starting from the zero-initialised array.
RECURSIVE knight_table_after(_)
knight_table_after(n) ==
    IF n = 0 THEN [i \in Squares |-> {}]
    ELSE LET knight_file == (n - 1) \div 8
             knight_rank == (n - 1) % 8
         IN  [knight_table_after(n - 1) EXCEPT
                 ![coords_to_sindex(knight_rank, knight_file)] = knight_moves(knight_rank, knight_file)]

generate_knight_move_table == knight_table_after(64)

knight_move_table == generate_knight_move_table

\* x | y and x & y on bitlanes.
LaneOr(x, y) == BitOrW(x, y, 8)
LaneAnd(x, y) == BitAndW(x, y, 8)

\* The "Towards Queenside" loop without its break on an occupied square.
RECURSIVE scan_queenside_no_break(_, _, _, _)
scan_queenside_no_break(origin, occupancy, towards_queenside, destinations) ==
    IF ~(towards_queenside <= origin) THEN destinations
    ELSE scan_queenside_no_break(origin, occupancy, U8(towards_queenside + 1),
            LaneOr(destinations, sbitlane(U8(origin - towards_queenside))))

\* generate_rooklike_move_table, the "Towards Queenside" loop from
\* towards_queenside on, with destinations as marked so far.
RECURSIVE scan_queenside(_, _, _, _)
scan_queenside(origin, occupancy, towards_queenside, destinations) ==
    IF ~(towards_queenside <= origin) THEN destinations
    ELSE LET mark == sbitlane(U8(origin - towards_queenside))
             is_square_occupied == LaneAnd(mark, occupancy) # 0
             marked == LaneOr(destinations, mark)
         IN  IF is_square_occupied THEN marked
             ELSE scan_queenside(origin, occupancy, U8(towards_queenside + 1), marked)

\* The "Towards Kingside" loop without its break on an occupied square.
RECURSIVE scan_kingside_no_break(_, _, _, _)
scan_kingside_no_break(origin, occupancy, kingside_square, destinations) ==
    IF ~(kingside_square < 8) THEN destinations
    ELSE scan_kingside_no_break(origin, occupancy, U8(kingside_square + 1),
            LaneOr(destinations, sbitlane(kingside_square)))

\* generate_rooklike_move_table, the "Towards Kingside" loop from
\* kingside_square on, with destinations as marked so far.
RECURSIVE scan_kingside(_, _, _, _)
scan_kingside(origin, occupancy, kingside_square, destinations) ==
    IF ~(kingside_square < 8) THEN destinations
    ELSE LET mark == sbitlane(kingside_square)
             is_square_occupied == LaneAnd(mark, occupancy) # 0
             marked == LaneOr(destinations, mark)
         IN  IF is_square_occupied THEN marked
             ELSE scan_kingside(origin, occupancy, U8(kingside_square + 1), marked)

\* The body of the occupancy loop: the destinations written to
\* table[origin][occupancy].
rooklike_destinations(origin, occupancy) ==
    scan_kingside(origin, occupancy, U8(origin + 1),
                  scan_queenside(origin, occupancy, 1, 0))

\* The values the occupancy loop's variable takes:
\* for (bitlane occupancy = 255; occupancy > 0; --occupancy).
occupancy_loop_values == {occupancy \in 0 .. 255 : occupancy > 0}

\* generate_rooklike_move_table(): the zero-initialised 8 x 256 array, with
\* table[origin][occupancy] written once for each origin of the outer loop and
\* each value the occupancy loop takes.
generate_rooklike_move_table ==
    [origin \in 0 .. 7 |->
        [occupancy \in 0 .. 255 |->
            IF occupancy \in occupancy_loop_values
            THEN rooklike_destinations(origin, occupancy)
            ELSE 0]]

rooklike_move_table == generate_rooklike_move_table

\* ------------------------------------------------------------ the machine

\* position: the chess_position.  last_op: the last call made on it.  outcome:
\* how that call ended.  calls: the number of calls made.  call: the last read
\* of a pure function or generated table, with its arguments and its result.
VARIABLES position, last_op, outcome, calls, call

vars == <<position, last_op, outcome, calls, call>>

Idle == [fn |-> "idle"]

\* A chess_position holding the given pieces, a set of <<square, color, type>>
\* with at most one piece per square, with an empty move_log and white to move.
PositionOf(pieces) ==
    [color_bitboard |->
        [c \in Colors |-> {pc[1] : pc \in {q \in pieces : q[2] = c}}],
     color_bitboard_rotated |->
        [c \in Colors |-> {rotate_sindex(pc[1]) : pc \in {q \in pieces : q[2] = c}}],
     type_specific_bitboard |->
        [t \in PieceTypes |->
            IF t = none THEN Squares \ {pc[1] : pc \in pieces}
            ELSE {pc[1] : pc \in {q \in pieces : q[3] = t}}],
     occupier_type_lookup_table |->
        [s \in Squares |->
            IF \E pc \in pieces : pc[1] = s
            THEN (CHOOSE pc \in pieces : pc[1] = s)[3]
            ELSE none],
     move_log |-> <<>>,
     whos_turn |-> white]

\* The starting layouts the model explores.
Layouts ==
    << \* pawns facing each other on files 0 and 1, a rook and a knight on file 1
       {<<33, white, pawn>>, <<24, white, pawn>>, <<1, white, rook>>,
        <<32, black, pawn>>, <<25, black, pawn>>, <<57, black, knight>>},
       \* a white pawn about to promote, straight or by capture
       {<<48, white, pawn>>, <<1, white, queen>>,
        <<57, black, rook>>, <<25, black, bishop>>},
       \* pieces only
       {<<1, white, rook>>, <<24, white, knight>>,
        <<57, black, queen>>, <<32, black, king>>},
       \* a lone pawn each
       {<<24, white, pawn>>, <<25, black, pawn>>},
       \* kings and a rook
       {<<1, white, king>>, <<16, white, rook>>, <<56, black, king>>} >>

\* How many of the layouts are explored, and how deep the move_log may grow.
\* and how many calls of make_move and unmake_move one run makes.
NumLayouts == 3
MaxLog == 2
MaxCalls == 3

\* The squares moves are drawn from: files 0 and 1 on the ranks the layouts use.
MoveSquares == {1, 16, 24, 25, 32, 33, 40, 48, 56, 57}

\* The promotion tags moves are drawn from.
PromotionChoices == {none, queen, knight}

\* A move the caller may hand to make_move: the origin holds a piece of the
\* side to move, the destination does not hold a piece of that side, and a
\* promotion is asked for a pawn only.
Admissible(pos, origin, destination, promote_to) ==
    /\ origin # destination
    /\ origin \in pos.color_bitboard[pos.whos_turn]
    /\ pos.occupier_type_lookup_table[origin] # none
    /\ destination \notin pos.color_bitboard[pos.whos_turn]
    /\ (promote_to # none => pos.occupier_type_lookup_table[origin] = pawn)

Init ==
    /\ \E i \in 1 .. NumLayouts : position = PositionOf(Layouts[i])
    /\ last_op = "init"
    /\ outcome = "ok"
    /\ calls = 0
    /\ call = Idle

MakeMove ==
    \E origin \in MoveSquares, destination \in MoveSquares, promote_to \in PromotionChoices :
        /\ outcome = "ok"
        /\ calls < MaxCalls
        /\ Len(position.move_log) < MaxLog
        /\ Admissible(position, origin, destination, promote_to)
        /\ position' = make_move(bitmove(origin, destination, promote_to), position)
        /\ last_op' = "make_move"
        /\ calls' = calls + 1
        /\ UNCHANGED <<outcome, call>>

UnmakeMove ==
    /\ outcome = "ok"
    /\ calls < MaxCalls
    /\ position.move_log # <<>>
    /\ position' = unmake_move(position)
    /\ last_op' = "unmake_move"
    /\ calls' = calls + 1
    /\ UNCHANGED <<outcome, call>>

Next == MakeMove \/ UnmakeMove

Spec == Init /\ [][Next]_vars

\* unmake_move(position) on an empty move_log.  move_log.top() and
\* move_log.pop() on an empty std::stack are undefined: the build either stops
\* the process there, or goes on with whatever record the memory before the
\* log holds and leaves a log that is empty or holds that record.  No branch of
\* unmake_move tests for the empty log, so no outcome reports it.
GarbageSquares == {1, 25, 57}
GarbageRecords ==
    {ReversibleMove(o, d, t, c, pr) :
        o \in GarbageSquares, d \in GarbageSquares, t \in GarbageSquares,
        c \in PieceTypes, pr \in BOOLEAN}

UnmakeMoveEmpty ==
    /\ outcome = "ok"
    /\ calls < MaxCalls
    /\ position.move_log = <<>>
    /\ last_op' = "unmake_move"
    /\ calls' = calls + 1
    /\ UNCHANGED call
    /\ \/ /\ outcome' = "crashed"
          /\ UNCHANGED position
       \/ /\ outcome' = "undefined"
          /\ \E garbage \in GarbageRecords : \E log \in {<<>>, <<garbage>>} :
                position' = [unmake_move_board(position, garbage) EXCEPT
                                !.move_log = log,
                                !.whos_turn = Not(position.whos_turn)]

NextAnyLog == MakeMove \/ UnmakeMove \/ UnmakeMoveEmpty

SpecAnyLog == Init /\ [][NextAnyLog]_vars

\* ------------------------------------------- reads of the pure functions

\* The state the reads start from: an empty board, nothing read yet.  Each run
\* makes one read.
InitRead ==
    /\ position = PositionOf({})
    /\ last_op = "init"
    /\ outcome = "ok"
    /\ calls = 0
    /\ call = Idle

\* A caller constructs a bitmove and unpacks it.
EncodeMove ==
    /\ call = Idle
    /\ \E origin \in Squares, destination \in Squares, promote_to \in PieceTypes :
        /\ origin # destination
        /\ call' = [fn |-> "bitmove", origin |-> origin, destination |-> destination,
                    promote_to |-> promote_to,
                    data |-> bitmove(origin, destination, promote_to),
                    unpacked |-> unpack_all(bitmove(origin, destination, promote_to))]
        /\ UNCHANGED <<position, last_op, outcome, calls>>

NextEncode == EncodeMove

SpecEncode == InitRead /\ [][NextEncode]_vars

\* A caller resolves the target square of a move.
LookupTarget ==
    /\ call = Idle
    /\ \E origin \in Squares, destination \in Squares, moved_piece_type \in PieceTypes \ {none}, destination_occupant_type \in PieceTypes, aggressor_color \in Colors :
        /\ origin # destination
        /\ call' = [fn |-> "lookup_target", origin |-> origin, destination |-> destination,
                    moved_piece_type |-> moved_piece_type,
                    destination_occupant_type |-> destination_occupant_type,
                    aggressor_color |-> aggressor_color,
                    key |-> target_key(origin, destination, moved_piece_type, destination_occupant_type, aggressor_color),
                    target |-> lookup_target(origin, destination, moved_piece_type, destination_occupant_type, aggressor_color)]
        /\ UNCHANGED <<position, last_op, outcome, calls>>

NextTarget == LookupTarget

SpecTarget == InitRead /\ [][NextTarget]_vars

\* A caller tests one bit of one entry of knight_move_table.
KnightLookup ==
    /\ call = Idle
    /\ \E square \in Squares, bit \in Squares :
        /\ call' = [fn |-> "knight_move_table", square |-> square, bit |-> bit,
                    marked |-> bit \in knight_move_table[square]]
        /\ UNCHANGED <<position, last_op, outcome, calls>>

\* A caller reads one entry of rooklike_move_table.
RookLookup ==
    /\ call = Idle
    /\ \E origin \in 0 .. 7, occupancy \in 0 .. 255 :
        /\ call' = [fn |-> "rooklike_move_table", origin |-> origin, occupancy |-> occupancy,
                    destinations |-> rooklike_move_table[origin][occupancy]]
        /\ UNCHANGED <<position, last_op, outcome, calls>>

NextTables == KnightLookup \/ RookLookup

SpecTables == InitRead /\ [][NextTables]_vars

\* A caller rotates a square index, and rotates the result again.
RotateIndex ==
    /\ call = Idle
    /\ \E original \in 0 .. 255 :
        /\ call' = [fn |-> "rotate_sindex", original |-> original,
                    rotated |-> rotate_sindex(original),
                    twice |-> rotate_sindex(rotate_sindex(original))]
        /\ UNCHANGED <<position, last_op, outcome, calls>>

\* A caller converts a rank-file coordinate to a square index and rotates it.
CoordsToIndex ==
    /\ call = Idle
    /\ \E rank \in 0 .. 7, file \in 0 .. 7 :
        /\ call' = [fn |-> "coords_to_sindex", rank |-> rank, file |-> file,
                    sindex |-> coords_to_sindex(rank, file),
                    rotated |-> rotate_sindex(coords_to_sindex(rank, file))]
        /\ UNCHANGED <<position, last_op, outcome, calls>>

NextCoords == RotateIndex \/ CoordsToIndex

SpecCoords == InitRead /\ [][NextCoords]_vars

\* ------------------------------------------------- the position's invariants

\* Invariant 1: every square has its bit in exactly the kind bitboard that
\* occupier_type_lookup_table names for it.
KindLookupConsistent(pos) ==
    \A s \in Squares : \A t \in PieceTypes :
        (s \in pos.type_specific_bitboard[t]) <=> (pos.occupier_type_lookup_table[s] = t)

\* Invariant 2: the side bitboards are disjoint and cover the six piece kinds.
SideOccupancy(pos) ==
    /\ pos.color_bitboard[white] \cap pos.color_bitboard[black] = {}
    /\ pos.color_bitboard[white] \cup pos.color_bitboard[black]
         = UNION {pos.type_specific_bitboard[t] : t \in PieceTypes \ {none}}

\* Invariant 3: the rotated side bitboards are the side bitboards re-indexed.
RotatedProjection(pos) ==
    \A c \in Colors : \A s \in Squares :
        (rotate_sindex(s) \in pos.color_bitboard_rotated[c]) <=> (s \in pos.color_bitboard[c])

\* Invariant 4: white is to move iff the log holds an even number of moves.
TurnParity(pos) ==
    (pos.whos_turn = white) <=> (Len(pos.move_log) % 2 = 0)

WellFormed(pos) ==
    /\ KindLookupConsistent(pos)
    /\ SideOccupancy(pos)
    /\ RotatedProjection(pos)
    /\ TurnParity(pos)

\* The moves the model draws that are admissible in pos.
AdmissibleMoves(pos) ==
    {m \in MoveSquares \X MoveSquares \X PromotionChoices : Admissible(pos, m[1], m[2], m[3])}

\* ------------------------------------------------------------------ claims

\* C1: from a well-formed position, make_move of an admissible move followed
\* by unmake_move gives back the position in every component.
C1_RoundTrip ==
    WellFormed(position) =>
        \A m \in AdmissibleMoves(position) :
            unmake_move(make_move(bitmove(m[1], m[2], m[3]), position)) = position

\* C2: in every reachable position each square has its bit in exactly one kind
\* bitboard, the one occupier_type_lookup_table names (none for empty squares).
C2_KindLookupInvariant == KindLookupConsistent(position)

\* C3: in every reachable position the two side bitboards are disjoint and
\* their union is the union of the six non-none kind bitboards.
C3_SideOccupancyInvariant == SideOccupancy(position)

\* C4: in every reachable position bit rotate_sindex(s) of
\* color_bitboard_rotated[c] is set iff bit s of color_bitboard[c] is set.
C4_RotatedProjectionInvariant == RotatedProjection(position)

\* C5: whos_turn is white iff move_log.size() is even, after any sequence of
\* make_move and unmake_move calls from an empty log with white to move.
C5_TurnParity == TurnParity(position)

\* C5 witness: two moves were made and one unmade: one move is logged and
\* black is to move.
C5_Witness ==
    /\ last_op = "unmake_move"
    /\ calls = 3
    /\ Len(position.move_log) = 1
    /\ position.whos_turn = black

\* C6: unmake_move on an empty move_log reports EmptyHistory and leaves the
\* position as it was.
C6_EmptyHistoryReported ==
    [][(position.move_log = <<>> /\ last_op' = "unmake_move")
          => (outcome' = "EmptyHistory" /\ position' = position)]_vars

\* C7: lookup_target returns the destination square whenever the destination
\* is occupied, and whenever a piece that is not a pawn stays on its file.
C7_TargetIsDestination ==
    (/\ call.fn = "lookup_target"
     /\ \/ call.destination_occupant_type # none
        \/ /\ call.moved_piece_type # pawn
           /\ call.origin % 8 = call.destination % 8)
    => call.target = call.destination

\* C8: unpack_all of bitmove(origin, destination, promotion) is exactly
\* (origin, destination, promotion), and the three fields lie side by side in
\* bits 0-5, 6-11 and 12-14 of the 16 bit word.
C8_EncodeRoundTrip ==
    call.fn = "bitmove" =>
        /\ call.unpacked = <<call.origin, call.destination, call.promote_to>>
        /\ call.data = call.promote_to * 4096 + call.destination * 64 + call.origin
        /\ call.data < 32768

\* C8 witness: the largest fields: origin 63, destination 62, promotion none.
C8_Witness ==
    /\ call.fn = "bitmove"
    /\ call.origin = 63 /\ call.destination = 62 /\ call.promote_to = none
    /\ call.unpacked = <<63, 62, none>>

\* The squares of a line a slider on origin reaches under the sliding rule:
\* every square other than origin with no occupied square strictly between it
\* and origin.
SlideRule(origin, occupancy) ==
    {s \in 0 .. 7 :
        /\ s # origin
        /\ \A k \in 0 .. 7 :
              ((origin < k /\ k < s) \/ (s < k /\ k < origin)) => ~TestBit(occupancy, k)}

\* The set of the bits set in a bitlane.
LaneBits(lane) == {s \in 0 .. 7 : TestBit(lane, s)}

\* C9: every entry rooklike_move_table[origin][occupancy], the empty pattern 0
\* included, marks exactly the squares the sliding rule reaches from origin,
\* and never origin itself.
C9_SliderTableIsSlideRule ==
    call.fn = "rooklike_move_table" =>
        LaneBits(call.destinations) = SlideRule(call.origin, call.occupancy)

\* The knight rule: t is one of the eight knight offsets away from s, with
\* row and column both staying on the board.
KnightRule(s, t) ==
    \E d \in {<<1, 2>>, <<1, -2>>, <<-1, 2>>, <<-1, -2>>,
              <<2, 1>>, <<2, -1>>, <<-2, 1>>, <<-2, -1>>} :
        /\ (s \div 8) + d[1] \in 0 .. 7
        /\ (s % 8) + d[2] \in 0 .. 7
        /\ t = 8 * ((s \div 8) + d[1]) + ((s % 8) + d[2])

\* C10: knight_move_table[i] marks exactly the squares the knight rule reaches
\* from i without leaving the board; entry 27 marks exactly 10, 12, 17, 21, 33,
\* 37, 42 and 44.
C10_KnightTableIsKnightRule ==
    call.fn = "knight_move_table" =>
        /\ call.marked <=> KnightRule(call.square, call.bit)
        /\ call.square = 27 => (call.marked <=> call.bit \in {10, 12, 17, 21, 33, 37, 42, 44})
        /\ knight_move_table[call.square] \subseteq Squares

\* C10 witness: a corner entry was read, where six of the eight offsets leave
\* the board: square 0 reaches 17, and the bit is marked.
C10_Witness ==
    /\ call.fn = "knight_move_table"
    /\ call.square = 0 /\ call.bit = 17
    /\ call.marked
    /\ Cardinality(knight_move_table[0]) = 2

\* C11: every square marked in rooklike_move_table[origin][occupancy] lies on
\* the run from origin to the nearest occupied square in its direction,
\* inclusive: no occupied square lies strictly between origin and a marked
\* square, and origin itself is not marked.
C11_SliderBlocking ==
    call.fn = "rooklike_move_table" =>
        \A s \in LaneBits(call.destinations) :
            /\ s # call.origin
            /\ \A k \in 0 .. 7 :
                  ((call.origin < k /\ k < s) \/ (s < k /\ k < call.origin))
                      => ~TestBit(call.occupancy, k)

\* C11 witness: origin 7 with only square 5 occupied: squares 6 and 5 are
\* marked and nothing beyond the blocker.
C11_Witness ==
    /\ call.fn = "rooklike_move_table"
    /\ call.origin = 7 /\ call.occupancy = 32
    /\ LaneBits(call.destinations) = {5, 6}

\* C12: the knight table is symmetric under the 180 degree rotation s -> 63 - s:
\* if bit t is set in knight_move_table[s] then bit 63 - t is set in
\* knight_move_table[63 - s].
C12_KnightSymmetry ==
    (call.fn = "knight_move_table" /\ call.marked) =>
        (63 - call.bit) \in knight_move_table[63 - call.square]

\* C12 witness: square 8 reaches square 2, on the edge of the board; the
\* rotated pair is square 55 reaching square 61.
C12_Witness ==
    /\ call.fn = "knight_move_table"
    /\ call.square = 8 /\ call.bit = 2
    /\ call.marked

\* C18 as stated: for origin 0 and the occupancy with exactly bits 2 and 5 set
\* the entry is exactly bits 1 through 5.
C18_SliderScenarioOriginal ==
    (call.fn = "rooklike_move_table" /\ call.origin = 0 /\ call.occupancy = 36) =>
        LaneBits(call.destinations) = {1, 2, 3, 4, 5}

\* C18 amended: for origin 0 and the occupancy with exactly bits 2 and 5 set
\* the entry is exactly bits 1 and 2: the scan stops at the first occupied
\* square, bit 2.
C18_SliderScenario ==
    (call.fn = "rooklike_move_table" /\ call.origin = 0 /\ call.occupancy = 36) =>
        LaneBits(call.destinations) = {1, 2}

\* C18 witness: the entry for origin 0 and occupancy 0b00100100 was read.
C18_Witness ==
    /\ call.fn = "rooklike_move_table"
    /\ call.origin = 0 /\ call.occupancy = 36
    /\ LaneBits(call.occupancy) = {2, 5}

\* C13: for every square index i in 0..63, rotate_sindex(i) is in 0..63 and
\* rotate_sindex(rotate_sindex(i)) = i; and rotating the index of (r, f) gives
\* the index of (f, r).
C13_RotateSelfInverse ==
    /\ (call.fn = "rotate_sindex" /\ call.original \in Squares) =>
          /\ call.rotated \in Squares
          /\ call.twice = call.original
    /\ call.fn = "coords_to_sindex" =>
          call.rotated = coords_to_sindex(call.file, call.rank)

\* C13 witness: square 7 (rank 0, file 7) was rotated to square 56 and back.
C13_Witness ==
    /\ call.fn = "rotate_sindex"
    /\ call.original = 7 /\ call.rotated = 56 /\ call.twice = 7

\* C15: when a pawn changes file and lands on an unoccupied square of file f,
\* on rank 5 for white and rank 2 for black, lookup_target returns the square
\* of file f one rank behind the destination: coords_to_sindex(4, f) for white
\* and coords_to_sindex(3, f) for black.
C15_EnPassantTarget ==
    (/\ call.fn = "lookup_target"
     /\ call.moved_piece_type = pawn
     /\ call.destination_occupant_type = none
     /\ call.origin % 8 # call.destination % 8
     /\ call.destination \div 8 = (IF call.aggressor_color = white THEN 5 ELSE 2))
    => call.target = coords_to_sindex(IF call.aggressor_color = white THEN 4 ELSE 3,
                                      call.destination % 8)

\* C20: the key lookup_target computes in its exception branch is the slot
\* generate_target_lookup_table wrote for the same file and side, and that
\* slot still holds what was written for them; distinct (file, side) pairs use
\* distinct slots in 0..15; and every key lies in 0..79.
C20_TargetTableIndexing ==
    call.fn = "lookup_target" =>
        /\ call.key \in TargetKeys
        /\ is_enpassant(call.origin, call.destination, call.moved_piece_type, call.destination_occupant_type) =>
              /\ call.key = target_slot(call.destination % 8, call.aggressor_color)
              /\ target_lookup_table[call.key]
                    = target_rank_square(call.destination % 8, call.aggressor_color)
        /\ \A f \in 0 .. 7, g \in 0 .. 7, c \in Colors, d \in Colors :
              (<<f, c>> # <<g, d>>) => (target_slot(f, c) # target_slot(g, d))
        /\ \A f \in 0 .. 7, c \in Colors : target_slot(f, c) \in 0 .. 15

\* The record on top of a position's move_log.
TopOfLog(pos) == pos.move_log[Len(pos.move_log)]

\* C14: from a well-formed position, make_move of an admissible move whose
\* destination holds an opponent piece of kind k pushes a record with
\* captured_piece_type = k, and the unmake_move that follows leaves kind k in
\* occupier_type_lookup_table[destination] and the destination bit set in the
\* opponent's side bitboard and in kind k's bitboard.
C14_CaptureRecordedRestored ==
    WellFormed(position) =>
        \A m \in AdmissibleMoves(position) :
            LET k == position.occupier_type_lookup_table[m[2]]
                opponent_color == Not(position.whos_turn)
                made == make_move(bitmove(m[1], m[2], m[3]), position)
                undone == unmake_move(made)
            IN  (m[2] \in position.color_bitboard[opponent_color] /\ k # none) =>
                    /\ TopOfLog(made).captured_piece_type = k
                    /\ undone.occupier_type_lookup_table[m[2]] = k
                    /\ m[2] \in undone.color_bitboard[opponent_color]
                    /\ m[2] \in undone.type_specific_bitboard[k]

\* C16: after make_move of an admissible move from a well-formed position,
\* occupier_type_lookup_table[destination] is the promotion kind when the
\* promotion tag is not none and the moved piece's kind otherwise, the
\* destination bit is set in exactly that kind's bitboard, and it is set in the
\* mover's side bitboard.
C16_DestinationFilled ==
    WellFormed(position) =>
        \A m \in AdmissibleMoves(position) :
            LET moved_piece_type == position.occupier_type_lookup_table[m[1]]
                filled_kind == IF m[3] # none THEN m[3] ELSE moved_piece_type
                made == make_move(bitmove(m[1], m[2], m[3]), position)
            IN  /\ made.occupier_type_lookup_table[m[2]] = filled_kind
                /\ \A t \in PieceTypes :
                      (m[2] \in made.type_specific_bitboard[t]) <=> (t = filled_kind)
                /\ m[2] \in made.color_bitboard[position.whos_turn]

\* k admissible make_move calls from pos followed by k unmake_move calls give
\* back pos, for k = 1 and k = 2.
UnwindsTo(pos) ==
    \A m \in AdmissibleMoves(pos) :
        LET first == make_move(bitmove(m[1], m[2], m[3]), pos)
        IN  /\ unmake_move(first) = pos
            /\ \A n \in AdmissibleMoves(first) :
                  unmake_move(unmake_move(make_move(bitmove(n[1], n[2], n[3]), first))) = pos

\* C17: every make_move grows move_log by one record, every unmake_move on a
\* non-empty log shrinks it by one, and k admissible make_move calls followed
\* by k unmake_move calls give back the starting position in every component.
C17_HistoryIsStack ==
    [][/\ (last_op' = "make_move") =>
             (Len(position'.move_log) = Len(position.move_log) + 1)
       /\ (last_op' = "unmake_move") =>
             (Len(position'.move_log) = Len(position.move_log) - 1)
       /\ WellFormed(position) => UnwindsTo(position)]_vars

\* Every square other than the three of a move reads the same in before and
\* after: its occupier_type_lookup_table entry, its bit in both side bitboards
\* and in the seven kind bitboards, and bit rotate_sindex(s) of both rotated
\* side bitboards.
FrameOutside(before, after, origin, target, destination) ==
    \A s \in Squares \ {origin, target, destination} :
        /\ after.occupier_type_lookup_table[s] = before.occupier_type_lookup_table[s]
        /\ \A c \in Colors :
              /\ (s \in after.color_bitboard[c]) <=> (s \in before.color_bitboard[c])
              /\ (rotate_sindex(s) \in after.color_bitboard_rotated[c])
                    <=> (rotate_sindex(s) \in before.color_bitboard_rotated[c])
        /\ \A t \in PieceTypes :
              (s \in after.type_specific_bitboard[t]) <=> (s \in before.type_specific_bitboard[t])

\* C19: make_move changes the position only at the origin, resolved target and
\* destination of the move, and unmake_move only at the origin, target and
\* destination of the record it pops.
C19_Frame ==
    [][/\ (last_op' = "make_move") =>
             FrameOutside(position, position', TopOfLog(position').origin,
                          TopOfLog(position').target, TopOfLog(position').destination)
       /\ (last_op' = "unmake_move") =>
             FrameOutside(position, position', TopOfLog(position).origin,
                          TopOfLog(position).target, TopOfLog(position).destination)]_vars

\* C19 witness: a move whose resolved target is neither its origin nor its
\* destination, and which took the piece on the target, was made and unmade.
C19_Witness ==
    /\ last_op = "unmake_move"
    /\ calls = 2
    /\ position.move_log = <<>>
    /\ \E m \in AdmissibleMoves(PositionOf(Layouts[1])) :
          LET made == make_move(bitmove(m[1], m[2], m[3]), PositionOf(Layouts[1]))
          IN  /\ TopOfLog(made).target \notin {m[1], m[2]}
              /\ TopOfLog(made).captured_piece_type # none
              /\ position = unmake_move(made)

====
